---- MODULE Spec2Model ----
(***************************************************************************)
(* A model of the branching-dialogue interpreter of dialogue/dialogue.py:  *)
(* Condition, Effect, Response, Prompt and the Dialogue session            *)
(* controller.  The interpreter is Python 2 code (it names `unicode`), so  *)
(* values follow Python 2: ints are unbounded, None orders below every     *)
(* int, and the store is a defaultdict(int) whose reads of a missing key   *)
(* insert that key with the value 0.                                       *)
(***************************************************************************)
EXTENDS Integers, Sequences, FiniteSets, TLC

\* ------------------------------------------------------------------ bounds

\* Store and operand integers are kept in -MaxVal..MaxVal (Python ints are
\* unbounded; an answer that would leave this range is not taken).
MaxVal == 6

\* answer() is called with every index in -MaxIx..MaxIx.
MaxIx == 3

\* ----------------------------------------------------------- Python values

\* Python's None.
None == [tag |-> "none"]

\* A Python int.
PyInt(k) == [tag |-> "int", n |-> k]

\* A unicode string that does not start with "eval:": the name of a variable.
PyName(v) == [tag |-> "name", name |-> v]

\* A unicode string "eval:<expr>"; expr is the parsed Python expression.
PyEval(e) == [tag |-> "eval", expr |-> e]

\* The result of evaluating something that may raise and that may touch the
\* store: the store afterwards, the exception raised ("" for none) and the
\* value produced.
Ok(g, v) == [g |-> g, err |-> "", val |-> v]
Raise(g, e) == [g |-> g, err |-> e, val |-> None]

\* A store whose missing keys come into being as None, as a defaultdict with
\* a factory returning None would make them.
MissingNone(g, v) == IF v \in DOMAIN g THEN g ELSE g @@ (v :> None)

\* globals[v] on a defaultdict(int): the store after the read (a missing key
\* is inserted with int() = 0); the value read is Missing(g, v)[v].
Missing(g, v) == IF v \in DOMAIN g THEN g ELSE g @@ (v :> PyInt(0))

\* Python 2 ordering of ints and None: None is below every int.
PyLess(a, b) ==
    IF a.tag = "none" THEN b.tag # "none"
    ELSE IF b.tag = "none" THEN FALSE
    ELSE a.n < b.n

\* Python == on ints and None.
PyEq(a, b) == a = b

\* ---------------------------------------------------------------- Condition

ConditionOps == {">", "<", "=", "==", ">=", "<=", "set", "unset"}

\* Condition.apply(globals)
ConditionApply(c, g) ==
    LET g1 == Missing(g, c.variable)
        value == g1[c.variable]
        is_boolean_op == c.operation = "set" \/ c.operation = "unset"
    IN  IF ~is_boolean_op /\ value = None
        THEN Raise(g1, "ValueError")
        ELSE IF c.operation \notin ConditionOps
        THEN Raise(g1, "TypeError")
        ELSE Ok(g1,
                CASE c.operation = ">"     -> PyLess(c.value, value)
                  [] c.operation = "<"     -> PyLess(value, c.value)
                  [] c.operation = "="     -> PyEq(value, c.value)
                  [] c.operation = "=="    -> PyEq(value, c.value)
                  [] c.operation = ">="    -> ~PyLess(value, c.value)
                  [] c.operation = "<="    -> ~PyLess(c.value, value)
                  [] c.operation = "set"   -> PyEq(value, PyInt(1))
                  [] c.operation = "unset" -> PyEq(value, PyInt(0)))

\* all([cond.apply(globals) for cond in conds]): the list is built in full
\* before all() looks at it, so every condition is applied, in order, and the
\* first one that raises ends the evaluation.
RECURSIVE AllApply(_, _)
AllApply(conds, g) ==
    IF conds = <<>> THEN Ok(g, TRUE)
    ELSE LET r == ConditionApply(Head(conds), g)
         IN  IF r.err # "" THEN r
             ELSE LET rest == AllApply(Tail(conds), r.g)
                  IN  IF rest.err # "" THEN rest
                      ELSE Ok(rest.g, r.val /\ rest.val)

\* ------------------------------------------------------------------- Effect

\* eval(text) inside Effect.apply, whose local name `globals` is the store.
\* The text is a Python expression: a number, globals["name"], a sum or a
\* product; "bad" is a text Python cannot parse.
RECURSIVE EvalExpr(_, _)
EvalExpr(e, g) ==
    CASE e.kind = "num" -> Ok(g, PyInt(e.n))
      [] e.kind = "get" -> LET g1 == Missing(g, e.name) IN Ok(g1, g1[e.name])
      [] e.kind = "bad" -> Raise(g, "SyntaxError")
      [] e.kind \in {"add", "mul"} ->
            LET l == EvalExpr(e.l, g)
            IN  IF l.err # "" THEN l
                ELSE LET r == EvalExpr(e.r, l.g)
                     IN  IF r.err # "" THEN r
                         ELSE IF l.val.tag # "int" \/ r.val.tag # "int"
                         THEN Raise(r.g, "TypeError")
                         ELSE Ok(r.g, PyInt(IF e.kind = "add"
                                            THEN l.val.n + r.val.n
                                            ELSE l.val.n * r.val.n))

\* The first half of Effect.apply: a unicode value is resolved against the
\* store and the result is stored back into self.value.
ResolveValue(e, g) ==
    CASE e.value.tag = "eval" -> EvalExpr(e.value.expr, g)
      [] e.value.tag = "name" ->
            LET g1 == Missing(g, e.value.name) IN Ok(g1, g1[e.value.name])
      [] OTHER -> Ok(g, e.value)

\* mutation(x) for the effect's operation, self.value being `value`.
Mutation(op, value, x) ==
    CASE op = "+" -> IF x.tag = "int" /\ value.tag = "int"
                     THEN [err |-> "", val |-> PyInt(x.n + value.n)]
                     ELSE [err |-> "TypeError", val |-> None]
      [] op = "-" -> IF x.tag = "int" /\ value.tag = "int"
                     THEN [err |-> "", val |-> PyInt(x.n - value.n)]
                     ELSE [err |-> "TypeError", val |-> None]
      [] op = "=" -> [err |-> "", val |-> value]
      [] op = "set" -> [err |-> "", val |-> PyInt(1)]
      [] op = "unset" -> [err |-> "", val |-> PyInt(0)]
      [] OTHER -> [err |-> "TypeError", val |-> None]

\* Effect.apply that resolves its operand without storing it back into
\* self.value.
EffectApplyNoMemo(e, g) ==
    LET rv == ResolveValue(e, g)
    IN  IF rv.err # "" THEN [g |-> rv.g, err |-> rv.err, val |-> e]
        ELSE LET g1 == Missing(rv.g, e.variable)
                 m  == Mutation(e.operation, rv.val, g1[e.variable])
             IN  IF m.err # "" THEN [g |-> g1, err |-> m.err, val |-> e]
                 ELSE [g |-> [g1 EXCEPT ![e.variable] = m.val],
                       err |-> "", val |-> e]

\* Effect.apply(globals): the store afterwards, the exception raised and, as
\* val, the Effect afterwards (its value memoized).
EffectApply(e, g) ==
    LET rv == ResolveValue(e, g)
    IN  IF rv.err # "" THEN [g |-> rv.g, err |-> rv.err, val |-> e]
        ELSE LET e1 == [e EXCEPT !.value = rv.val]
                 g1 == Missing(rv.g, e.variable)
                 m  == Mutation(e.operation, rv.val, g1[e.variable])
             IN  IF m.err # "" THEN [g |-> g1, err |-> m.err, val |-> e1]
                 ELSE [g |-> [g1 EXCEPT ![e.variable] = m.val],
                       err |-> "", val |-> e1]

\* ----------------------------------------------------------------- Response

\* apply_effects as a batch: every effect reads the store as it was before
\* the first of them, and the results are written together.
ApplyEffectsBatch(effects, g) ==
    LET rs == [i \in 1..Len(effects) |-> EffectApply(effects[i], g)]
        failed == {i \in 1..Len(effects) : rs[i].err # ""}
        writers(v) == {i \in 1..Len(effects) : effects[i].variable = v}
        last(v) == CHOOSE i \in writers(v) : \A k \in writers(v) : k <= i
        keys == UNION ({DOMAIN g} \cup {DOMAIN rs[i].g : i \in 1..Len(effects)})
    IN  IF failed # {}
        THEN [g |-> g,
              err |-> rs[CHOOSE i \in failed : \A k \in failed : i <= k].err,
              val |-> effects]
        ELSE [g |-> [v \in keys |->
                        IF writers(v) # {} THEN rs[last(v)].g[v]
                        ELSE IF v \in DOMAIN g THEN g[v] ELSE PyInt(0)],
              err |-> "",
              val |-> [i \in 1..Len(effects) |-> rs[i].val]]

\* apply_effects that goes on to the remaining effects after one of them
\* raised, and raises at the end.
RECURSIVE ApplyEffectsSkipsFailure(_, _)
ApplyEffectsSkipsFailure(effects, g) ==
    IF effects = <<>> THEN Ok(g, <<>>)
    ELSE LET r == EffectApply(Head(effects), g)
             rest == ApplyEffectsSkipsFailure(Tail(effects), r.g)
         IN  [g |-> rest.g,
              err |-> IF r.err # "" THEN r.err ELSE rest.err,
              val |-> <<r.val>> \o rest.val]

\* Response.apply_effects(globals): the effects are applied one after another
\* to the same store; the first one that raises ends the loop.  val is the
\* effect list afterwards (values memoized).
RECURSIVE ApplyEffects(_, _)
ApplyEffects(effects, g) ==
    IF effects = <<>> THEN Ok(g, <<>>)
    ELSE LET r == EffectApply(Head(effects), g)
         IN  IF r.err # ""
             THEN [g |-> r.g, err |-> r.err, val |-> <<r.val>> \o Tail(effects)]
             ELSE LET rest == ApplyEffects(Tail(effects), r.g)
                  IN  [g |-> rest.g, err |-> rest.err,
                       val |-> <<r.val>> \o rest.val]

\* get_next without its break: the last matching transition wins.
RECURSIVE GetNextNoBreak(_, _)
GetNextNoBreak(transitions, g) ==
    IF transitions = <<>> THEN Ok(g, -1)
    ELSE LET r == AllApply(Head(transitions).conditions, g)
         IN  IF r.err # "" THEN r
             ELSE LET rest == GetNextNoBreak(Tail(transitions), r.g)
                  IN  IF rest.err # "" THEN rest
                      ELSE IF r.val /\ rest.val = -1
                      THEN Ok(rest.g, Head(transitions).target)
                      ELSE rest

\* Response.get_next(globals): ret = -1, then the first transition whose
\* conditions all hold sets ret and breaks.
RECURSIVE GetNext(_, _)
GetNext(transitions, g) ==
    IF transitions = <<>> THEN Ok(g, -1)
    ELSE LET r == AllApply(Head(transitions).conditions, g)
         IN  IF r.err # "" THEN r
             ELSE IF r.val THEN Ok(r.g, Head(transitions).target)
             ELSE GetNext(Tail(transitions), r.g)

\* ------------------------------------------------------------------- Prompt

\* get_responses without the filter: every text, whatever the preconditions.
PromptGetResponsesUnfiltered(responses, g) ==
    Ok(g, [j \in 1..Len(responses) |-> responses[j].text])

\* Prompt.get_responses(globals): the texts of the responses whose
\* preconditions all hold, in list order.
RECURSIVE PromptGetResponses(_, _)
PromptGetResponses(responses, g) ==
    IF responses = <<>> THEN Ok(g, <<>>)
    ELSE LET r == AllApply(Head(responses).preconditions, g)
         IN  IF r.err # "" THEN r
             ELSE LET rest == PromptGetResponses(Tail(responses), r.g)
                  IN  IF rest.err # "" THEN rest
                      ELSE Ok(rest.g, (IF r.val THEN <<Head(responses).text>>
                                       ELSE <<>>) \o rest.val)

\* ------------------------------------------------------------ construction

\* Condition.__init__
Condition(condition) ==
    [variable  |-> condition.variable,
     operation |-> condition.operation,
     value     |-> IF "value" \in DOMAIN condition
                   THEN condition.value ELSE None]

\* Effect.__init__
Effect(effect) ==
    [variable  |-> effect.variable,
     operation |-> effect.operation,
     value     |-> IF "value" \in DOMAIN effect THEN effect.value ELSE None]

\* Response._create_transitions: one (target, conditions) pair per entry.
Transition(next) ==
    [target     |-> next.target,
     conditions |-> [i \in 1..Len(next.conditions) |->
                        Condition(next.conditions[i])]]

\* Response.__init__
Response(response) ==
    LET pre == IF "preconditions" \in DOMAIN response
               THEN response.preconditions ELSE <<>>
        eff == IF "effects" \in DOMAIN response
               THEN response.effects ELSE <<>>
    IN  [text          |-> response.text,
         preconditions |-> [i \in 1..Len(pre) |-> Condition(pre[i])],
         effects       |-> [i \in 1..Len(eff) |-> Effect(eff[i])],
         transitions   |-> [i \in 1..Len(response.transitions) |->
                               Transition(response.transitions[i])]]

\* Prompt.__init__
Prompt(prompt) ==
    [texts     |-> prompt.text,
     id        |-> prompt.id,
     responses |-> [i \in 1..Len(prompt.responses) |->
                       Response(prompt.responses[i])]]

\* Dialogue._create_prompts: the table id -> Prompt; of two prompts with the
\* same id the later one stays.
RECURSIVE CreatePrompts(_)
CreatePrompts(prompt_list) ==
    IF prompt_list = <<>> THEN [k \in {} |-> None]
    ELSE LET n == Len(prompt_list)
         IN  (prompt_list[n].id :> Prompt(prompt_list[n]))
                 @@ CreatePrompts(SubSeq(prompt_list, 1, n - 1))

\* self.globals after Dialogue.__init__: a defaultdict(int) updated with the
\* document's defaults.
CreateGlobals(defaults) == [v \in DOMAIN defaults |-> PyInt(defaults[v])]

\* ------------------------------------------------------ authoring documents

\* A defaults object with no entries.
NoDefaults == [v \in {} |-> 0]

\* {"target": t, "conditions": []}
Goto(t) == [target |-> t, conditions |-> <<>>]

\* The end-to-end scenario: one response that adds 1 to trust and leads to a
\* prompt without responses.
DocGreet ==
    [defaults |-> [trust |-> 0],
     prompts |-> <<
        [id |-> 0, text |-> "Hello", responses |-> <<
            [text |-> "Greet back",
             effects |-> <<[variable |-> "trust", operation |-> "+",
                            value |-> PyInt(1)]>>,
             transitions |-> <<Goto(1)>>] >>],
        [id |-> 1, text |-> "Bye", responses |-> <<>>] >>]

\* The gating scenario: "Secret" needs trust >= 5, "Flatter" adds 2 to trust
\* and comes back, "Leave" is offered only while trust < 5.
DocGate ==
    [defaults |-> [trust |-> 0],
     prompts |-> <<
        [id |-> 0, text |-> "Well?", responses |-> <<
            [text |-> "Secret",
             preconditions |-> <<[variable |-> "trust", operation |-> ">=",
                                  value |-> PyInt(5)]>>,
             effects |-> <<[variable |-> "seen", operation |-> "set"]>>,
             transitions |-> <<Goto(1)>>],
            [text |-> "Flatter",
             effects |-> <<[variable |-> "trust", operation |-> "+",
                            value |-> PyInt(2)]>>,
             transitions |-> <<Goto(0)>>],
            [text |-> "Leave",
             preconditions |-> <<[variable |-> "trust", operation |-> "<",
                                  value |-> PyInt(5)]>>,
             transitions |-> <<Goto(2)>>] >>],
        [id |-> 1, text |-> "The secret", responses |-> <<>>],
        [id |-> 2, text |-> "Bye", responses |-> <<>>] >>]

\* Transition lists whose entries overlap: conditional first, unconditional
\* first, and a list of which no entry may match.
DocFirst ==
    [defaults |-> NoDefaults,
     prompts |-> <<
        [id |-> 0, text |-> "Where to?", responses |-> <<
            [text |-> "On",
             effects |-> <<[variable |-> "x", operation |-> "set"]>>,
             transitions |-> <<Goto(0)>>],
            [text |-> "Off",
             effects |-> <<[variable |-> "x", operation |-> "unset"]>>,
             transitions |-> <<Goto(0)>>],
            [text |-> "Conditional first",
             transitions |-> <<
                [target |-> 1, conditions |->
                    <<[variable |-> "x", operation |-> "set"]>>],
                Goto(2) >>],
            [text |-> "Unconditional first",
             transitions |-> <<
                Goto(2),
                [target |-> 1, conditions |->
                    <<[variable |-> "x", operation |-> "set"]>>] >>],
            [text |-> "Maybe nowhere",
             transitions |-> <<
                [target |-> 1, conditions |->
                    <<[variable |-> "x", operation |-> "set"],
                      [variable |-> "y", operation |-> "=",
                       value |-> PyInt(1)]>>],
                [target |-> 2, conditions |->
                    <<[variable |-> "y", operation |-> ">",
                       value |-> PyInt(0)]>>] >>] >>],
        [id |-> 1, text |-> "One", responses |-> <<
            [text |-> "Back", transitions |-> <<Goto(0)>>] >>],
        [id |-> 2, text |-> "Two", responses |-> <<>>] >>]

\* A document that defines no prompt with id 0.
DocNoEntry ==
    [defaults |-> NoDefaults,
     prompts |-> <<
        [id |-> 1, text |-> "One", responses |-> <<
            [text |-> "On", transitions |-> <<Goto(2)>>] >>],
        [id |-> 2, text |-> "Two", responses |-> <<>>] >>]

\* A transition to a prompt id that is not defined, one to the sentinel -1,
\* an empty transition list, and a prompt that uses -1 as its id.
DocDangling ==
    [defaults |-> NoDefaults,
     prompts |-> <<
        [id |-> 0, text |-> "Hello", responses |-> <<
            [text |-> "Nowhere", transitions |-> <<Goto(7)>>],
            [text |-> "End",
             effects |-> <<[variable |-> "x", operation |-> "+",
                            value |-> PyInt(1)]>>,
             transitions |-> <<Goto(-1)>>],
            [text |-> "No transitions", transitions |-> <<>>] >>],
        [id |-> -1, text |-> "Ghost", responses |-> <<
            [text |-> "Again",
             effects |-> <<[variable |-> "x", operation |-> "+",
                            value |-> PyInt(1)]>>,
             transitions |-> <<Goto(0)>>] >>] >>]

\* Operators outside the dispatch tables and a text eval cannot parse.
DocBadOps ==
    [defaults |-> [trust |-> 0],
     prompts |-> <<
        [id |-> 0, text |-> "Hello", responses |-> <<
            [text |-> "Bad effect",
             effects |-> <<[variable |-> "trust", operation |-> "+",
                            value |-> PyInt(1)],
                           [variable |-> "x", operation |-> "*",
                            value |-> PyInt(2)],
                           [variable |-> "trust", operation |-> "+",
                            value |-> PyInt(1)]>>,
             transitions |-> <<Goto(1)>>],
            [text |-> "Bad transition",
             effects |-> <<[variable |-> "trust", operation |-> "-",
                            value |-> PyInt(1)]>>,
             transitions |-> <<
                [target |-> 1, conditions |->
                    <<[variable |-> "y", operation |-> "!=",
                       value |-> PyInt(0)]>>] >>],
            [text |-> "Bad eval",
             effects |-> <<[variable |-> "trust", operation |-> "set"],
                           [variable |-> "trust", operation |-> "+",
                            value |-> PyEval([kind |-> "bad"])]>>,
             transitions |-> <<Goto(1)>>],
            [text |-> "Fine", transitions |-> <<Goto(1)>>] >>],
        [id |-> 1, text |-> "One", responses |-> <<
            [text |-> "Back", transitions |-> <<Goto(0)>>],
            [text |-> "Bad precondition",
             preconditions |-> <<[variable |-> "z", operation |-> "!=",
                                  value |-> PyInt(1)]>>,
             transitions |-> <<Goto(0)>>] >>] >>]

\* Values that are absent (None), names of other variables and eval: texts.
DocValues ==
    [defaults |-> [trust |-> 1],
     prompts |-> <<
        [id |-> 0, text |-> "Hello", responses |-> <<
            [text |-> "Copy",
             effects |-> <<[variable |-> "y", operation |-> "+",
                            value |-> PyName("trust")],
                           [variable |-> "trust", operation |-> "+",
                            value |-> PyInt(1)]>>,
             transitions |-> <<Goto(0)>>],
            [text |-> "Eval",
             effects |-> <<[variable |-> "x", operation |-> "=",
                            value |-> PyEval(
                                [kind |-> "add",
                                 l |-> [kind |-> "get", name |-> "trust"],
                                 r |-> [kind |-> "mul",
                                        l |-> [kind |-> "num", n |-> 1],
                                        r |-> [kind |-> "num", n |-> 2]]])]>>,
             transitions |-> <<Goto(0)>>],
            [text |-> "Clear",
             effects |-> <<[variable |-> "trust", operation |-> "="]>>,
             transitions |-> <<Goto(1)>>],
            [text |-> "Add nothing",
             effects |-> <<[variable |-> "trust", operation |-> "+"]>>,
             transitions |-> <<Goto(1)>>],
            [text |-> "On", transitions |-> <<Goto(1)>>] >>],
        [id |-> 1, text |-> "One", responses |-> <<
            [text |-> "No value",
             preconditions |-> <<[variable |-> "x", operation |-> ">"]>>,
             transitions |-> <<Goto(0)>>],
            [text |-> "Set",
             preconditions |-> <<[variable |-> "trust", operation |-> "set"]>>,
             transitions |-> <<Goto(2)>>],
            [text |-> "Compare",
             preconditions |-> <<[variable |-> "trust", operation |-> "<=",
                                  value |-> PyInt(3)]>>,
             transitions |-> <<Goto(0)>>] >>],
        [id |-> 2, text |-> "Two", responses |-> <<>>] >>]

\* An entry prompt without responses.
DocTerminal ==
    [defaults |-> [trust |-> 0],
     prompts |-> << [id |-> 0, text |-> "Nothing to say",
                     responses |-> <<>>] >>]

\* Variables that no defaults entry names, effects that read what earlier
\* effects of the same response wrote, a response whose effect changes what
\* its own precondition and transitions read, and a prompt whose responses are
\* all gated by variables nothing sets.
DocStore ==
    [defaults |-> NoDefaults,
     prompts |-> <<
        [id |-> 0, text |-> "Hello", responses |-> <<
            [text |-> "Twice",
             effects |-> <<[variable |-> "a", operation |-> "+",
                            value |-> PyInt(1)],
                           [variable |-> "b", operation |-> "=",
                            value |-> PyName("a")],
                           [variable |-> "a", operation |-> "+",
                            value |-> PyInt(1)]>>,
             transitions |-> <<Goto(0)>>],
            [text |-> "Borrow",
             effects |-> <<[variable |-> "c", operation |-> "+",
                            value |-> PyName("d")],
                           [variable |-> "e", operation |-> "-",
                            value |-> PyInt(2)]>>,
             transitions |-> <<Goto(1)>>],
            [text |-> "Flip",
             preconditions |-> <<[variable |-> "f", operation |-> "unset"]>>,
             effects |-> <<[variable |-> "f", operation |-> "set"]>>,
             transitions |-> <<
                [target |-> 2, conditions |->
                    <<[variable |-> "f", operation |-> "set"]>>],
                Goto(1) >>] >>],
        [id |-> 1, text |-> "Locked", responses |-> <<
            [text |-> "Key",
             preconditions |-> <<[variable |-> "k", operation |-> "set"]>>,
             transitions |-> <<Goto(0)>>],
            [text |-> "Other key",
             preconditions |-> <<[variable |-> "k", operation |-> ">",
                                  value |-> PyInt(0)]>>,
             transitions |-> <<Goto(0)>>] >>],
        [id |-> 2, text |-> "Two", responses |-> <<>>] >>]

\* The documents a session is constructed from.
Documents ==
    <<DocGreet, DocGate, DocFirst, DocNoEntry, DocDangling, DocBadOps,
      DocValues, DocTerminal, DocStore>>

\* ----------------------------------------------------------------- Dialogue

VARIABLES
    prompts,         \* Dialogue.prompts: id -> Prompt (Effect values memoized)
    globals,         \* Dialogue.globals: the defaultdict(int) store
    current_prompt,  \* Dialogue.current_prompt
    done,            \* Dialogue.done
    ret,             \* the last call of the caller and what came back
    run              \* ConsoleEngine.run: where it is and its locals

vars == <<prompts, globals, current_prompt, done, ret, run>>

\* What a call gave back: the exception raised ("" for none), the value
\* returned, and for answer the position (in the prompt's response list) of
\* the response it chose (0 for none).
Returned(call, ix, value) ==
    [call |-> call, ix |-> ix, raised |-> "", value |-> value, chosen |-> 0]
Raised(call, ix, err) ==
    [call |-> call, ix |-> ix, raised |-> err, value |-> None, chosen |-> 0]

PyStr(s) == [tag |-> "str", s |-> s]
PyList(items) == [tag |-> "list", items |-> items]
PyBool(b) == [tag |-> "bool", b |-> b]
PyDict(d) == [tag |-> "dict", d |-> d]

\* Every int of the store lies within the model's range.
InRange(g) ==
    \A v \in DOMAIN g : g[v].tag = "int" => g[v].n \in -MaxVal..MaxVal

\* ConsoleEngine.run as a record: pc is the statement it is at, ix and res
\* are its locals of these names, turn lists the calls it has made on the
\* dialogue in the current pass of its outer loop.
RunAt(pc, ix, res, turn) == [pc |-> pc, ix |-> ix, res |-> res, turn |-> turn]

\* Dialogue.__init__
DialogueInit ==
    \E d \in 1..Len(Documents) :
        /\ globals = CreateGlobals(Documents[d].defaults)
        /\ prompts = CreatePrompts(Documents[d].prompts)
        /\ current_prompt = 0
        /\ done = FALSE
        /\ ret = Returned("init", 0, None)

\* A session whose methods are called directly, in any order: no
\* ConsoleEngine runs.
Init == DialogueInit /\ run = RunAt("none", 1, None, <<>>)

\* Dialogue.is_done()
IsDone ==
    /\ ret' = Returned("is_done", 0, PyBool(done))
    /\ UNCHANGED <<prompts, globals, current_prompt, done>>

\* get_prompt that forgets to end the session on a prompt without responses.
GetPromptKeepsGoing ==
    IF done = FALSE
    THEN IF current_prompt \notin DOMAIN prompts
         THEN /\ ret' = Raised("get_prompt", 0, "KeyError")
              /\ UNCHANGED <<prompts, globals, current_prompt, done>>
         ELSE /\ ret' = Returned("get_prompt", 0,
                                 PyStr(prompts[current_prompt].texts))
              /\ UNCHANGED <<prompts, globals, current_prompt, done>>
    ELSE /\ ret' = Returned("get_prompt", 0, None)
         /\ UNCHANGED <<prompts, globals, current_prompt, done>>

\* get_prompt that recomputes done from the current prompt on every call.
GetPromptRecomputes ==
    IF current_prompt \notin DOMAIN prompts
    THEN /\ ret' = Raised("get_prompt", 0, "KeyError")
         /\ UNCHANGED <<prompts, globals, current_prompt, done>>
    ELSE /\ done' = (prompts[current_prompt].responses = <<>>)
         /\ ret' = Returned("get_prompt", 0,
                            PyStr(prompts[current_prompt].texts))
         /\ UNCHANGED <<prompts, globals, current_prompt>>

\* Dialogue.get_prompt()
GetPrompt ==
    IF done = FALSE
    THEN IF current_prompt \notin DOMAIN prompts
         THEN /\ ret' = Raised("get_prompt", 0, "KeyError")
              /\ UNCHANGED <<prompts, globals, current_prompt, done>>
         ELSE /\ done' = (prompts[current_prompt].responses = <<>>)
              /\ ret' = Returned("get_prompt", 0,
                                 PyStr(prompts[current_prompt].texts))
              /\ UNCHANGED <<prompts, globals, current_prompt>>
    ELSE /\ ret' = Returned("get_prompt", 0, None)
         /\ UNCHANGED <<prompts, globals, current_prompt, done>>

\* get_responses that ends the session when it has nothing to list.
GetResponsesEndsSession ==
    IF done = FALSE
    THEN IF current_prompt \notin DOMAIN prompts
         THEN /\ ret' = Raised("get_responses", 0, "KeyError")
              /\ UNCHANGED <<prompts, globals, current_prompt, done>>
         ELSE LET r == PromptGetResponses(prompts[current_prompt].responses,
                                          globals)
              IN  /\ globals' = r.g
                  /\ ret' = IF r.err # ""
                            THEN Raised("get_responses", 0, r.err)
                            ELSE Returned("get_responses", 0, PyList(r.val))
                  /\ done' = (r.err = "" /\ r.val = <<>>)
                  /\ UNCHANGED <<prompts, current_prompt>>
    ELSE /\ ret' = Returned("get_responses", 0, None)
         /\ UNCHANGED <<prompts, globals, current_prompt, done>>

\* Dialogue.get_responses()
GetResponses ==
    IF done = FALSE
    THEN IF current_prompt \notin DOMAIN prompts
         THEN /\ ret' = Raised("get_responses", 0, "KeyError")
              /\ UNCHANGED <<prompts, globals, current_prompt, done>>
         ELSE LET r == PromptGetResponses(prompts[current_prompt].responses,
                                          globals)
              IN  /\ globals' = r.g
                  /\ ret' = IF r.err # ""
                            THEN Raised("get_responses", 0, r.err)
                            ELSE Returned("get_responses", 0, PyList(r.val))
                  /\ UNCHANGED <<prompts, current_prompt, done>>
    ELSE /\ ret' = Returned("get_responses", 0, None)
         /\ UNCHANGED <<prompts, globals, current_prompt, done>>

\* answer indexing the prompt's whole response list.
ActiveResponsesRaw(responses, k, g) ==
    Ok(g, [j \in 1..Len(responses) |-> j])

\* The list comprehension of Dialogue.answer: the positions, in the prompt's
\* response list, of the responses whose preconditions all hold.
RECURSIVE ActiveResponses(_, _, _)
ActiveResponses(responses, k, g) ==
    IF k > Len(responses) THEN Ok(g, <<>>)
    ELSE LET r == AllApply(responses[k].preconditions, g)
         IN  IF r.err # "" THEN r
             ELSE LET rest == ActiveResponses(responses, k + 1, r.g)
                  IN  IF rest.err # "" THEN rest
                      ELSE Ok(rest.g,
                              (IF r.val THEN <<k>> ELSE <<>>) \o rest.val)

\* active_responses[response_ix] on a list of n items: the 1-based position
\* taken, 0 for an IndexError.  Python counts a negative index from the end.
ListIndex(n, response_ix) ==
    IF response_ix >= 0 /\ response_ix < n THEN response_ix + 1
    ELSE IF response_ix < 0 /\ response_ix >= -n THEN n + response_ix + 1
    ELSE 0

\* The session and the exception raised, as a call of answer leaves them.
Outcome(p, g, cp, d, raised, chosen) ==
    [prompts |-> p, globals |-> g, current_prompt |-> cp, done |-> d,
     raised |-> raised, chosen |-> chosen]

\* answer that sets current_prompt to -1 without ending the session.
AnswerNextForgetsDone(prompts1, chosen, next) ==
    IF next.err # ""
    THEN Outcome(prompts1, next.g, current_prompt, done, next.err, chosen)
    ELSE Outcome(prompts1, next.g, next.val, done, "", chosen)

\* Dialogue.answer, after chosen_response.get_next(globals) gave `next`:
\* current_prompt is set, and done with it when the id is -1.
AnswerNext(prompts1, chosen, next) ==
    IF next.err # ""
    THEN Outcome(prompts1, next.g, current_prompt, done, next.err, chosen)
    ELSE Outcome(prompts1, next.g, next.val,
                 IF next.val = -1 THEN TRUE ELSE done, "", chosen)

\* answer that puts the store back when an effect raises.
AnswerAppliedRollsBack(responses, chosen, applied) ==
    IF applied.err # ""
    THEN Outcome(prompts, globals, current_prompt, done, applied.err, chosen)
    ELSE AnswerNext([prompts EXCEPT
                        ![current_prompt].responses[chosen].effects =
                            applied.val],
                    chosen,
                    GetNext(responses[chosen].transitions, applied.g))

\* answer that resolves the next prompt on the store as it was before the
\* effects of the chosen response.
AnswerAppliedStaleNext(responses, chosen, applied) ==
    IF applied.err # ""
    THEN Outcome([prompts EXCEPT
                     ![current_prompt].responses[chosen].effects = applied.val],
                 applied.g, current_prompt, done, applied.err, chosen)
    ELSE AnswerNext([prompts EXCEPT
                        ![current_prompt].responses[chosen].effects =
                            applied.val],
                    chosen,
                    [GetNext(responses[chosen].transitions, globals)
                        EXCEPT !.g = applied.g])

\* Dialogue.answer, after chosen_response.apply_effects(globals) gave
\* `applied`: the effects of the chosen response keep their memoized values.
AnswerApplied(responses, chosen, applied) ==
    IF applied.err # ""
    THEN Outcome([prompts EXCEPT
                     ![current_prompt].responses[chosen].effects = applied.val],
                 applied.g, current_prompt, done, applied.err, chosen)
    ELSE AnswerNext([prompts EXCEPT
                        ![current_prompt].responses[chosen].effects =
                            applied.val],
                    chosen,
                    GetNext(responses[chosen].transitions, applied.g))

\* Dialogue.answer, after active_responses[response_ix] took position `at`
\* of the active list.
AnswerChosen(responses, active, at) ==
    IF at = 0
    THEN Outcome(prompts, active.g, current_prompt, done, "IndexError", 0)
    ELSE AnswerApplied(responses, active.val[at],
                       ApplyEffects(responses[active.val[at]].effects,
                                    active.g))

\* Dialogue.answer, after the list comprehension gave `active`.
AnswerActive(responses, active, response_ix) ==
    IF active.err # ""
    THEN Outcome(prompts, active.g, current_prompt, done, active.err, 0)
    ELSE AnswerChosen(responses, active,
                      ListIndex(Len(active.val), response_ix))

\* Dialogue.answer(response_ix) on a session that is not done.
AnswerBody(response_ix) ==
    IF current_prompt \notin DOMAIN prompts
    THEN Outcome(prompts, globals, current_prompt, done, "KeyError", 0)
    ELSE AnswerActive(prompts[current_prompt].responses,
                      ActiveResponses(prompts[current_prompt].responses, 1,
                                      globals),
                      response_ix)

\* answer without its check of the done flag.
AnswerOutcomeUnchecked(response_ix) == AnswerBody(response_ix)

\* Dialogue.answer(response_ix)
AnswerOutcome(response_ix) ==
    IF ~done THEN AnswerBody(response_ix)
    ELSE Outcome(prompts, globals, current_prompt, done, "Exception", 0)

Answer(response_ix) ==
    LET o == AnswerOutcome(response_ix)
    IN  /\ InRange(o.globals)
        /\ prompts' = o.prompts
        /\ globals' = o.globals
        /\ current_prompt' = o.current_prompt
        /\ done' = o.done
        /\ ret' = [call |-> "answer", ix |-> response_ix, raised |-> o.raised,
                   value |-> None, chosen |-> o.chosen]

\* Dialogue.get_globals(): the store itself is handed out.
GetGlobals ==
    /\ ret' = Returned("get_globals", 0, PyDict(globals))
    /\ UNCHANGED <<prompts, globals, current_prompt, done>>

Next ==
    /\ \/ IsDone
       \/ GetPrompt
       \/ GetResponses
       \/ \E response_ix \in -MaxIx..MaxIx : Answer(response_ix)
       \/ GetGlobals
    /\ UNCHANGED run

Spec == Init /\ [][Next]_vars

\* ------------------------------------------------------------ ConsoleEngine

\* What the user may type at the "> " prompt: an int, or a text int() cannot
\* read.
Inputs == {PyInt(k) : k \in (0 - 1)..(MaxIx + 1)} \cup {PyStr("text")}

\* main: d = Dialogue(js); ConsoleEngine(d).run()
InitRun == DialogueInit /\ run = RunAt("get_prompt", 1, None, <<>>)

\* run: prompts = self.dialog.get_prompt(); self.print_prompts(prompts).
\* print_prompts raises TypeError on None; an exception ends run.
RunGetPrompt ==
    /\ run.pc = "get_prompt"
    /\ GetPrompt
    /\ run' = RunAt(IF ret'.raised # "" \/ ret'.value = None
                    THEN "crashed" ELSE "is_done",
                    run.ix, run.res, <<"get_prompt">>)

\* run that goes on to list the responses whatever is_done() said.
RunIsDoneIgnored ==
    /\ run.pc = "is_done"
    /\ IsDone
    /\ run' = RunAt("get_responses", run.ix, run.res,
                    Append(run.turn, "is_done"))

\* run: if self.dialog.is_done(): break (after the prompt was printed)
RunIsDone ==
    /\ run.pc = "is_done"
    /\ IsDone
    /\ run' = RunAt(IF done THEN "stopped" ELSE "get_responses",
                    run.ix, run.res, Append(run.turn, "is_done"))

\* run: ix = 1; for response in self.dialog.get_responses(): ...; ix += 1.
\* Iterating None raises TypeError.
RunGetResponses ==
    /\ run.pc = "get_responses"
    /\ GetResponses
    /\ run' = RunAt(IF ret'.raised # "" \/ ret'.value = None
                    THEN "crashed" ELSE "input",
                    IF ret'.raised # "" \/ ret'.value = None
                    THEN 1 ELSE 1 + Len(ret'.value.items),
                    run.res, Append(run.turn, "get_responses"))

\* run: res = input("> "); int(res) raises ValueError; continue
RunInputNotInt ==
    /\ run.pc = "input"
    /\ \E res \in Inputs :
          /\ res.tag # "int"
          /\ run' = RunAt("input", run.ix, res, run.turn)
    /\ UNCHANGED <<prompts, globals, current_prompt, done, ret>>

\* run: res < 1 or res > ix - 1: the message is printed and input is asked
\* for again.
RunInputOutOfRange ==
    /\ run.pc = "input"
    /\ \E res \in Inputs :
          /\ res.tag = "int"
          /\ res.n < 1 \/ res.n > run.ix - 1
          /\ run' = RunAt("input", run.ix, res, run.turn)
    /\ UNCHANGED <<prompts, globals, current_prompt, done, ret>>

\* run: input("> ") itself raises (end of input, or a text Python 2's input
\* cannot evaluate), which ends run.
RunInputRaises ==
    /\ run.pc = "input"
    /\ run' = RunAt("crashed", run.ix, None, run.turn)
    /\ UNCHANGED <<prompts, globals, current_prompt, done, ret>>

\* run: else: self.dialog.answer(res - 1); break
RunAnswer ==
    /\ run.pc = "input"
    /\ \E res \in Inputs :
          /\ res.tag = "int"
          /\ ~(res.n < 1 \/ res.n > run.ix - 1)
          /\ Answer(res.n - 1)
          /\ run' = RunAt(IF ret'.raised # "" THEN "crashed"
                          ELSE "is_done_after",
                          run.ix, res, Append(run.turn, "answer"))

\* run: if self.dialog.is_done(): break (after the answer), else the outer
\* loop starts over.
RunIsDoneAfter ==
    /\ run.pc = "is_done_after"
    /\ IsDone
    /\ run' = RunAt(IF done THEN "stopped" ELSE "get_prompt",
                    run.ix, run.res, Append(run.turn, "is_done"))

\* ConsoleEngine.run()
NextRun ==
    \/ RunGetPrompt
    \/ RunIsDone
    \/ RunGetResponses
    \/ RunInputNotInt
    \/ RunInputOutOfRange
    \/ RunInputRaises
    \/ RunAnswer
    \/ RunIsDoneAfter

SpecRun == InitRun /\ [][NextRun]_vars

\* ------------------------------------------------------------------- claims

\* The condition is true in store g (Condition.apply returns True).
Holds(c, g) == ConditionApply(c, g).err = "" /\ ConditionApply(c, g).val

\* Condition.apply returns on store g (it does not raise).
Evaluable(c, g) == ConditionApply(c, g).err = ""

\* Every condition of the list is true in store g.
AllHold(conds, g) == \A i \in 1..Len(conds) : Holds(conds[i], g)

\* The positions of the responses of rs whose preconditions are all true.
ActiveSet(rs, g) == {j \in 1..Len(rs) : AllHold(rs[j].preconditions, g)}

\* The session is not done and stands on a prompt of the table.
OnPrompt == ~done /\ current_prompt \in DOMAIN prompts

\* C1: on a session that is not done, answer(i) with 0 <= i <
\* len(get_responses()) chooses the response whose text is get_responses()[i]
\* as returned right before the call; the effects of that response are the
\* ones applied and its transitions give the next prompt.
C1_AnswerChoosesFiltered ==
    [][(ret'.call = "answer" /\ OnPrompt) =>
        LET rs == prompts[current_prompt].responses
            listed == PromptGetResponses(rs, globals)
        IN  (listed.err = "" /\ ret'.ix \in 0..(Len(listed.val) - 1)) =>
            /\ ret'.chosen \in 1..Len(rs)
            /\ rs[ret'.chosen].text = listed.val[ret'.ix + 1]
            /\ LET applied == ApplyEffects(rs[ret'.chosen].effects, listed.g)
                   next == GetNext(rs[ret'.chosen].transitions, applied.g)
               IN  IF applied.err # ""
                   THEN /\ ret'.raised = applied.err
                        /\ globals' = applied.g
                        /\ current_prompt' = current_prompt
                   ELSE IF next.err # ""
                   THEN /\ ret'.raised = next.err
                        /\ globals' = next.g
                        /\ current_prompt' = current_prompt
                   ELSE /\ ret'.raised = ""
                        /\ globals' = next.g
                        /\ current_prompt' = next.val]_vars

\* answer(i) returned after choosing a response whose position in the
\* prompt's whole response list is not i.
C1_Witness ==
    /\ ret.call = "answer" /\ ret.raised = ""
    /\ ret.ix >= 0 /\ ret.chosen > ret.ix + 1
    /\ \E v \in DOMAIN globals : globals[v] # PyInt(0)

\* C2: in a not-done state get_responses() returns exactly the texts of the
\* current prompt's responses whose preconditions are all true in the current
\* store, in declared order: the m-th text returned is the text of the m-th
\* such response.
C2_ResponsesAreFiltered ==
    (ret.call = "get_responses" /\ OnPrompt) =>
        LET rs == prompts[current_prompt].responses
            active == ActiveSet(rs, globals)
        IN  (\A j \in 1..Len(rs) : \A i \in 1..Len(rs[j].preconditions) :
                Evaluable(rs[j].preconditions[i], globals)) =>
            /\ ret.raised = ""
            /\ ret.value.tag = "list"
            /\ Len(ret.value.items) = Cardinality(active)
            /\ \A m \in 1..Len(ret.value.items) :
                  \E j \in active :
                      /\ Cardinality({i \in active : i <= j}) = m
                      /\ ret.value.items[m] = rs[j].text

\* get_responses() left out a response and listed a later one, in a store
\* that earlier answers have changed.
C2_Witness ==
    /\ ret.call = "get_responses" /\ ret.raised = "" /\ OnPrompt
    /\ LET rs == prompts[current_prompt].responses
       IN  /\ ret.value.items # <<>>
           /\ Len(ret.value.items) < Len(rs)
           /\ ret.value.items[1] = rs[1].text
           /\ \E j \in 1..Len(rs) : rs[j].preconditions # <<>>
                                     /\ j \notin ActiveSet(rs, globals)
    /\ \E v \in DOMAIN globals : globals[v].tag = "int" /\ globals[v].n >= 5

\* The positions of the transitions of ts that match in store g.
Matching(ts, g) == {k \in 1..Len(ts) : AllHold(ts[k].conditions, g)}

\* Every response of every prompt of the table, as <<id, position>>.
AllResponses ==
    UNION {{<<id, j>> : j \in 1..Len(prompts[id].responses)} :
              id \in DOMAIN prompts}

\* C3 (as claimed): get_next returns the target of the first matching
\* transition, and returns -1 if and only if no transition matches.
C3_FirstMatchOrMinusOneIff ==
    \A idj \in AllResponses :
        LET ts == prompts[idj[1]].responses[idj[2]].transitions
            r == GetNext(ts, globals)
            matching == Matching(ts, globals)
        IN  r.err = "" =>
            /\ \A k \in matching :
                  (\A m \in matching : k <= m) => r.val = ts[k].target
            /\ (r.val = -1) <=> (matching = {})

\* C3 (amended): get_next returns the target of the first transition, in
\* declared order, whose conditions are all true, whichever later transitions
\* match too; it returns -1 when no transition matches, and otherwise only when
\* the first matching transition names -1 as its target.
C3_FirstMatch ==
    \A idj \in AllResponses :
        LET ts == prompts[idj[1]].responses[idj[2]].transitions
            r == GetNext(ts, globals)
            matching == Matching(ts, globals)
        IN  r.err = "" =>
            /\ \A k \in matching :
                  (\A m \in matching : k <= m) => r.val = ts[k].target
            /\ (matching = {}) => r.val = -1
            /\ (r.val = -1) =>
                  \/ matching = {}
                  \/ \E k \in matching : /\ \A m \in matching : k <= m
                                         /\ ts[k].target = -1

\* answer took the first of two matching transitions with different targets.
C3_Witness ==
    /\ ret.call = "answer" /\ ret.raised = ""
    /\ \E idj \in AllResponses :
        LET ts == prompts[idj[1]].responses[idj[2]].transitions
            matching == Matching(ts, globals)
        IN  /\ idj[2] = ret.chosen
            /\ \E k, m \in matching :
                  /\ k < m /\ ts[k].target # ts[m].target
                  /\ \A n \in matching : k <= n
                  /\ current_prompt = ts[k].target

\* The current prompt is in the table and has no responses.
OnTerminalPrompt ==
    /\ current_prompt \in DOMAIN prompts
    /\ Len(prompts[current_prompt].responses) = 0

\* C4: when the current prompt has no responses, the first get_prompt() call
\* returns that prompt's payload and makes is_done() true; from then on done
\* stays true and every get_responses() call returns None.
C4_TerminalDetection ==
    [][/\ (ret'.call = "get_prompt" /\ ~done /\ OnTerminalPrompt) =>
            /\ ret'.raised = ""
            /\ ret'.value = PyStr(prompts[current_prompt].texts)
            /\ done'
       /\ (ret'.call = "get_responses" /\ done) =>
            /\ ret'.raised = ""
            /\ ret'.value = None
       /\ (done /\ OnTerminalPrompt) => done']_vars

\* get_responses() returned None on a prompt without responses that an answer
\* led to.
C4_Witness ==
    /\ done /\ OnTerminalPrompt /\ current_prompt # 0
    /\ ret.call = "get_responses" /\ ret.raised = "" /\ ret.value = None

\* C5: while done is false, current_prompt is a key of the prompts table.
C5_CurrentPromptIsKey == ~done => current_prompt \in DOMAIN prompts

\* C6: answer(i) on a session whose done flag is true raises, whatever i is,
\* and leaves current_prompt, done and the store as they were.
C6_AnswerOnDoneFails ==
    [][(ret'.call = "answer" /\ done) =>
        /\ ret'.raised = "Exception"
        /\ ret'.chosen = 0
        /\ UNCHANGED <<current_prompt, done, globals, prompts>>]_vars

\* answer was called with a negative index on a done session and raised.
C6_Witness ==
    /\ done /\ ret.call = "answer" /\ ret.raised = "Exception" /\ ret.ix < 0

\* C7: on a not-done session answer(i) raises an index error for every i
\* outside [0, len(get_responses())), negative ones included, and chooses no
\* response.
C7_OutOfRangeFails ==
    [][(ret'.call = "answer" /\ OnPrompt) =>
        LET listed == PromptGetResponses(prompts[current_prompt].responses,
                                         globals)
        IN  (listed.err = "" /\ ret'.ix \notin 0..(Len(listed.val) - 1)) =>
            /\ ret'.raised = "IndexError"
            /\ ret'.chosen = 0]_vars

\* The value of variable v as a read of store g gives it.
Read(g, v) == IF v \in DOMAIN g THEN g[v] ELSE PyInt(0)

\* Stores g and h give every variable the same value.
SameValues(g, h) == \A v \in DOMAIN g \cup DOMAIN h : Read(g, v) = Read(h, v)

\* C8 (as claimed): a call of answer that fails leaves the store,
\* current_prompt and done as they were before the call.
C8_AnswerAtomic ==
    [][(ret'.call = "answer" /\ ret'.raised # "") =>
        /\ SameValues(globals, globals')
        /\ current_prompt' = current_prompt
        /\ done' = done]_vars

\* C8 (amended): a call of answer that fails leaves current_prompt and done as
\* they were; when it fails before a response is chosen (done session, prompt
\* not in the table, precondition that raises, index out of range) every
\* variable of the store keeps its value; when it fails while an effect is
\* applied or a transition condition is evaluated, the store is left as the
\* effects applied up to the failure made it.
C8_AnswerFailureFrame ==
    [][(ret'.call = "answer" /\ ret'.raised # "") =>
        /\ current_prompt' = current_prompt
        /\ done' = done
        /\ ret'.chosen = 0 => SameValues(globals, globals')
        /\ ret'.chosen # 0 =>
            LET rs == prompts[current_prompt].responses
                listed == PromptGetResponses(rs, globals)
                applied == ApplyEffects(rs[ret'.chosen].effects, listed.g)
            IN  /\ applied.err # "" =>
                    /\ globals' = applied.g
                    /\ ret'.raised = applied.err
                /\ applied.err = "" =>
                    /\ SameValues(globals', applied.g)
                    /\ GetNext(rs[ret'.chosen].transitions, applied.g).err
                           = ret'.raised]_vars

\* answer raised on the second effect of the chosen response and the first
\* effect (trust + 1) is in the store.
C8_Witness ==
    /\ ret.call = "answer" /\ ret.raised = "TypeError"
    /\ ret.ix = 0 /\ ret.chosen = 1 /\ current_prompt = 0 /\ ~done
    /\ DOMAIN globals = {"trust", "x"}
    /\ globals["trust"] = PyInt(1) /\ globals["x"] = PyInt(0)

\* C9 (as claimed): in every reachable state in which current_prompt is -1 or
\* the current prompt has no responses, done is true.
C9_TerminalImpliesDone ==
    (current_prompt = -1 \/ OnTerminalPrompt) => done

\* C9 (amended): done is true in every reachable state in which
\* current_prompt is -1, and in every state in which the current prompt has no
\* responses and get_prompt() was the last call; right after the answer that
\* leads to such a prompt done is still false.
C9_DoneAfterGetPrompt ==
    /\ current_prompt = -1 => done
    /\ (ret.call = "get_prompt" /\ OnTerminalPrompt) => done
    /\ (ret.call = "answer" /\ ret.raised = "" /\ OnTerminalPrompt
            /\ current_prompt # -1) => ~done

\* get_prompt() was called on a prompt without responses that an answer led
\* to, and done is true.
C9_Witness ==
    /\ ret.call = "get_prompt" /\ ret.value.tag = "str"
    /\ OnTerminalPrompt /\ current_prompt # 0 /\ done

\* C10: once done is true it stays true, and current_prompt and the store
\* never change again, whichever of get_prompt, get_responses, answer,
\* get_globals and is_done is called.
C10_DonePermanent ==
    [][done => /\ done'
               /\ current_prompt' = current_prompt
               /\ globals' = globals]_vars

\* get_prompt() was called on a session ended by a transition to -1 and
\* returned None.
C10_Witness ==
    /\ done /\ current_prompt = -1
    /\ ret.call = "get_prompt" /\ ret.raised = "" /\ ret.value = None

\* C11 (as claimed): get_prompt() called twice in a row, or get_responses()
\* called twice in a row, returns the same result both times.
C11_QueriesIdempotent ==
    [][/\ (ret.call = "get_prompt" /\ ret'.call = "get_prompt") => ret' = ret
       /\ (ret.call = "get_responses" /\ ret'.call = "get_responses") =>
            ret' = ret]_vars

\* C11 (amended): get_responses() called twice in a row returns the same
\* result both times; so does get_prompt(), except on a prompt without
\* responses, where the first call returns the payload and ends the session
\* and the second call returns None.
C11_QueriesIdempotentUnlessTerminal ==
    [][/\ (ret.call = "get_prompt" /\ ret'.call = "get_prompt") =>
            IF ret.value.tag = "str" /\ OnTerminalPrompt
            THEN ret' = Returned("get_prompt", 0, None)
            ELSE ret' = ret
       /\ (ret.call = "get_responses" /\ ret'.call = "get_responses") =>
            ret' = ret]_vars

\* get_prompt() returned None on a prompt without responses that an answer
\* led to: the call before it had returned the payload.
C11_Witness ==
    /\ done /\ OnTerminalPrompt /\ current_prompt # 0
    /\ ret.call = "get_prompt" /\ ret.raised = "" /\ ret.value = None

\* Every Condition of the table: the preconditions of every response and the
\* conditions of every transition.
AllConditions ==
    UNION {LET r == prompts[idj[1]].responses[idj[2]]
           IN  {r.preconditions[i] : i \in 1..Len(r.preconditions)}
               \cup UNION {{r.transitions[t].conditions[i] :
                               i \in 1..Len(r.transitions[t].conditions)} :
                           t \in 1..Len(r.transitions)} :
           idj \in AllResponses}

\* C12: a Condition whose operation is one of > < = == >= <= and whose value
\* is None raises ValueError on every store; it never returns a boolean.
C12_NullValueRaises ==
    \A c \in AllConditions :
        (c.operation \in {">", "<", "=", "==", ">=", "<="} /\ c.value = None)
            => ConditionApply(c, globals).err = "ValueError"

\* The store after the first k effects of a list were applied to g, one after
\* another.
RECURSIVE FoldStores(_, _, _)
FoldStores(effects, g, k) ==
    IF k = 0 THEN g
    ELSE EffectApply(effects[k], FoldStores(effects, g, k - 1)).g

\* Effect i of response j of prompt id.
AllEffects ==
    UNION {{<<idj[1], idj[2], i>> :
               i \in 1..Len(prompts[idj[1]].responses[idj[2]].effects)} :
           idj \in AllResponses}

Unresolved(e) == e.value.tag \in {"name", "eval"}

\* The variables the other effects of a list write.
WrittenByOthers(effects, i) ==
    {effects[k].variable : k \in (1..Len(effects)) \ {i}}

\* C13: an Effect whose value is a text is resolved against the store the
\* first time it is applied and holds the result from then on: a resolved
\* value never changes; after a call of answer that succeeds every effect of
\* the chosen response is resolved, an effect that was a text holding what the
\* text gave on the store the effect met; and an effect that was already
\* resolved adds or subtracts the value it holds, whatever the store now says.
C13_OperandMemoized ==
    [][/\ \A x \in AllEffects :
            LET e == prompts[x[1]].responses[x[2]].effects[x[3]]
            IN  ~Unresolved(e) =>
                    prompts'[x[1]].responses[x[2]].effects[x[3]] = e
       /\ (ret'.call = "answer" /\ ret'.raised = "") =>
            LET es  == prompts[current_prompt].responses[ret'.chosen].effects
                es1 == prompts'[current_prompt].responses[ret'.chosen].effects
            IN  \A i \in 1..Len(es) :
                    /\ ~Unresolved(es1[i])
                    /\ es[i].value.tag = "name" =>
                          es1[i].value =
                              Read(FoldStores(es, globals, i - 1),
                                   es[i].value.name)
                    /\ es[i].value.tag = "eval" =>
                          es1[i].value =
                              EvalExpr(es[i].value.expr,
                                       FoldStores(es, globals, i - 1)).val
                    /\ ( /\ es[i].value.tag = "int"
                         /\ es[i].operation \in {"+", "-"}
                         /\ es[i].variable \notin WrittenByOthers(es, i)
                         /\ Read(globals, es[i].variable).tag = "int" ) =>
                          Read(globals', es[i].variable) =
                              PyInt(Read(globals, es[i].variable).n
                                    + (IF es[i].operation = "+"
                                       THEN es[i].value.n
                                       ELSE 0 - es[i].value.n))]_vars

\* "Copy" was chosen twice: its first effect, y + trust, was resolved to 1 the
\* first time and added 1 again the second time, when trust was 2.
C13_Witness ==
    /\ ret.call = "answer" /\ ret.raised = "" /\ ret.chosen = 1
    /\ 0 \in DOMAIN prompts /\ prompts[0].responses # <<>>
    /\ prompts[0].responses[1].text = "Copy"
    /\ prompts[0].responses[1].effects[1].value = PyInt(1)
    /\ Read(globals, "y") = PyInt(2) /\ Read(globals, "trust") = PyInt(3)

\* C14: evaluating conditions leaves the store exactly as it was, the set of
\* variables present in it included: get_responses() does not change the
\* store.
C14_ConditionsLeaveStore ==
    [][ret'.call = "get_responses" => globals' = globals]_vars

\* The variables an eval: expression reads.
RECURSIVE ExprNames(_)
ExprNames(e) ==
    CASE e.kind = "get" -> {e.name}
      [] e.kind \in {"add", "mul"} -> ExprNames(e.l) \cup ExprNames(e.r)
      [] OTHER -> {}

\* The variables an Effect reads: its target and those of its operand.
EffectReads(e) ==
    {e.variable} \cup
    (CASE e.value.tag = "name" -> {e.value.name}
       [] e.value.tag = "eval" -> ExprNames(e.value.expr)
       [] OTHER -> {})

\* The store g with each variable of vs it does not hold written into it as 0.
Zeroed(g, vs) == g @@ [v \in vs \ DOMAIN g |-> PyInt(0)]

\* In the store g every variable that is not a key reads as 0: each Condition
\* and each Effect of the table gives on g what it gives on g with the
\* variables it reads written in as 0, a named operand that is not a key
\* resolves to 0, and no read raises KeyError.
ReadsAsZero(p, g) ==
    /\ \A id \in DOMAIN p : \A j \in 1..Len(p[id].responses) :
        LET r == p[id].responses[j]
            conds == {r.preconditions[i] : i \in 1..Len(r.preconditions)}
                     \cup UNION {{r.transitions[t].conditions[i] :
                                     i \in 1..Len(r.transitions[t].conditions)} :
                                 t \in 1..Len(r.transitions)}
        IN  /\ \A c \in conds :
                LET here == ConditionApply(c, g)
                    zero == ConditionApply(c, Zeroed(g, {c.variable}))
                IN  /\ here.err = zero.err /\ here.val = zero.val
                    /\ here.err # "KeyError"
                    /\ (c.variable \notin DOMAIN g /\ c.operation = "unset")
                          => here.val = TRUE
            /\ \A i \in 1..Len(r.effects) :
                LET e == r.effects[i]
                    here == EffectApply(e, g)
                    zero == EffectApply(e, Zeroed(g, EffectReads(e)))
                IN  /\ here.err = zero.err /\ here.val = zero.val
                    /\ SameValues(here.g, zero.g)
                    /\ here.err # "KeyError"
                    /\ (e.value.tag = "name" /\ e.value.name \notin DOMAIN g)
                          => here.val.value = PyInt(0)
                    /\ ( /\ e.variable \notin DOMAIN g
                         /\ e.operation = "+" /\ here.err = "" )
                          => here.g[e.variable] = here.val.value

\* C15: a variable that is neither in the defaults nor written by an applied
\* effect reads as 0 when a Condition reads it, when an Effect reads it as its
\* target and when an Effect reads it as a named operand, and reading it
\* raises nothing: in every state each Condition and Effect of the table
\* behaves on the store as on the store with the missing variables at 0, and
\* a key that comes into the store by being read holds 0.
C15_DefaultZero ==
    [][/\ ReadsAsZero(prompts, globals)
       /\ ReadsAsZero(prompts', globals')
       /\ \A v \in DOMAIN globals' \ DOMAIN globals :
            ( \/ ret'.call # "answer"
              \/ ret'.chosen = 0
              \/ v \notin {prompts[current_prompt].responses[ret'.chosen]
                               .effects[i].variable :
                           i \in 1..Len(prompts[current_prompt]
                                           .responses[ret'.chosen].effects)} )
                => globals'[v] = PyInt(0)]_vars

\* "Borrow" was chosen on an empty store: c + d read both c and d as 0, and
\* e - 2 started from 0.
C15_Witness ==
    /\ ret.call = "answer" /\ ret.raised = "" /\ ret.chosen = 2
    /\ {"c", "d", "e"} \subseteq DOMAIN globals
    /\ globals["c"] = PyInt(0) /\ globals["d"] = PyInt(0)
    /\ globals["e"] = PyInt(0 - 2)

\* C16: apply_effects applies the effects of the response one after another
\* in declared order, each on the store the effects before it left: after a
\* call of answer that succeeds the store holds the left-to-right fold of the
\* chosen response's effects over the store before the call.
C16_EffectsFold ==
    [][(ret'.call = "answer" /\ ret'.raised = "") =>
        LET es == prompts[current_prompt].responses[ret'.chosen].effects
        IN  SameValues(globals', FoldStores(es, globals, Len(es)))]_vars

\* "Twice" was chosen on an empty store: a + 1, b = a, a + 1 gave a = 2 and
\* b = 1, the value of a between the two increments.
C16_Witness ==
    /\ ret.call = "answer" /\ ret.raised = "" /\ ret.chosen = 1
    /\ {"a", "b"} \subseteq DOMAIN globals
    /\ globals["a"] = PyInt(2) /\ globals["b"] = PyInt(1)

\* The effects of a list that raise on the store the effects before them
\* left.
Failing(es, g) ==
    {k \in 1..Len(es) :
        EffectApply(es[k], FoldStores(es, g, k - 1)).err # ""}

\* C17: when an effect of the chosen response raises, answer raises the same
\* error; the store holds what the effects before the failing one made of
\* it, the effects after it are neither applied nor resolved, and
\* current_prompt and done are as before the call.
C17_FailingEffect ==
    [][(ret'.call = "answer" /\ ret'.chosen # 0) =>
        LET es  == prompts[current_prompt].responses[ret'.chosen].effects
            es1 == prompts'[current_prompt].responses[ret'.chosen].effects
        IN  Failing(es, globals) # {} =>
                LET k == CHOOSE i \in Failing(es, globals) :
                            \A m \in Failing(es, globals) : i <= m
                IN  /\ ret'.raised =
                          EffectApply(es[k],
                                      FoldStores(es, globals, k - 1)).err
                    /\ SameValues(globals', FoldStores(es, globals, k - 1))
                    /\ \A i \in (k + 1)..Len(es) : es1[i] = es[i]
                    /\ current_prompt' = current_prompt
                    /\ done' = done]_vars

\* "Bad eval" was chosen: trust set was applied, then the eval: text of the
\* second effect could not be parsed.
C17_Witness ==
    /\ ret.call = "answer" /\ ret.raised = "SyntaxError" /\ ret.chosen = 3
    /\ current_prompt = 0 /\ ~done
    /\ "trust" \in DOMAIN globals /\ globals["trust"] = PyInt(1)

\* C18: in a call of answer that succeeds the response is chosen among those
\* whose preconditions hold on the store before the call, at the position the
\* index gives; the next prompt id is the target of the first transition
\* whose conditions hold on the store after all the effects of the chosen
\* response, -1 when there is none; current_prompt becomes that id and done
\* becomes true exactly when the id is -1.
C18_AnswerOrdering ==
    [][(ret'.call = "answer" /\ ret'.raised = "") =>
        LET rs == prompts[current_prompt].responses
            active == ActiveSet(rs, globals)
            r == rs[ret'.chosen]
            post == FoldStores(r.effects, globals, Len(r.effects))
            matching == Matching(r.transitions, post)
            next == IF matching = {} THEN 0 - 1
                    ELSE r.transitions[CHOOSE k \in matching :
                                          \A m \in matching : k <= m].target
        IN  /\ ret'.chosen \in active
            /\ Cardinality({j \in active : j < ret'.chosen}) =
                   IF ret'.ix >= 0 THEN ret'.ix
                   ELSE Cardinality(active) + ret'.ix
            /\ current_prompt' = next
            /\ done' = (next = 0 - 1)]_vars

\* "Flip" was chosen while f was 0: its precondition f unset held before the
\* effect, its first transition, on f set, held after it.
C18_Witness ==
    /\ ret.call = "answer" /\ ret.raised = "" /\ ret.chosen = 3
    /\ current_prompt = 2 /\ ~done
    /\ "f" \in DOMAIN globals /\ globals["f"] = PyInt(1)

\* C19: in every reachable state in which the session is not done and the
\* current prompt has at least one response, get_responses() is not empty.
C19_NoStuckSession ==
    ( /\ OnPrompt
      /\ prompts[current_prompt].responses # <<>>
      /\ PromptGetResponses(prompts[current_prompt].responses, globals).err
            = "" )
        => PromptGetResponses(prompts[current_prompt].responses,
                              globals).val # <<>>

\* The step is a call of method c made by run.
RunCalls(c) == run'.turn # run.turn /\ ret'.call = c

\* C20: ConsoleEngine.run keeps to the calling protocol whatever the user
\* types: get_prompt and get_responses are called only on a session that is
\* not done and never return None, get_responses after get_prompt in the
\* same pass; answer is called only on a session that is not done, after
\* get_responses in the same pass, with an index from 0 to n - 1, n being the
\* length of the list get_responses returned, which is the list answer
\* indexes; run stops when is_done() returns true, and makes no call after
\* it stopped.
C20_RunRespectsProtocol ==
    [][/\ RunCalls("get_prompt") =>
            /\ ~done
            /\ ret'.value # None \/ ret'.raised # ""
       /\ RunCalls("get_responses") =>
            /\ ~done
            /\ ret'.value # None \/ ret'.raised # ""
            /\ run.turn = <<"get_prompt", "is_done">>
       /\ RunCalls("answer") =>
            /\ ~done
            /\ run.turn = <<"get_prompt", "is_done", "get_responses">>
            /\ ret'.ix \in 0..(run.ix - 2)
            /\ run.ix - 1 =
                  Cardinality(ActiveSet(prompts[current_prompt].responses,
                                        globals))
            /\ ret'.raised \notin {"IndexError", "Exception"}
       /\ (RunCalls("is_done") /\ ret'.value = PyBool(TRUE)) =>
            run'.pc = "stopped"
       /\ run.pc \notin {"stopped", "crashed"}]_vars

\* run went through a whole pass: prompt, is_done, responses, an answer, and
\* stopped when is_done() returned true after it.
C20_Witness ==
    /\ run.pc = "stopped" /\ done
    /\ run.turn = <<"get_prompt", "is_done", "get_responses", "answer",
                    "is_done">>
    /\ run.res.tag = "int" /\ ret = Returned("is_done", 0, PyBool(TRUE))

====
